---- MODULE Spec2Model ----
(***************************************************************************)
(* Model of the Kindle log processor: the per-segment scan and the        *)
(* marker-selection / duration algorithm of calculator.process_iteration  *)
(* and of LogProcessor.process_iteration (final_kindle_analyzer.py), with *)
(* the event extractors of event_parser.py.                               *)
(*                                                                         *)
(* A log line is a record of what the extractors' regular expressions     *)
(* capture on it: digit strings are sequences of digits (so "05" and "5"  *)
(* are different strings with the same integer value), a missing capture  *)
(* is the empty sequence.  Python's None for an integer is the value      *)
(* None (-1); an optional record is a sequence of length 0 or 1.          *)
(*                                                                         *)
(* The specifications share the scan step ScanStep:                       *)
(*   Spec     one segment scanned line by line, for both analyzers and    *)
(*            the three modes;                                             *)
(*   SpecIter one whole call of process_iteration on a given list of      *)
(*            lines, so that the outcome can be compared with the input;  *)
(*   SpecLog  process_log_content: the split on ITERATION_<digits>, the   *)
(*            pairing, and the loop over the segments;                    *)
(*   SpecExtract  one extract_start_timestamp call on a line of text;     *)
(*   SpecAgree    both analyzers' process_iteration on the same segment;  *)
(*   SpecRun      LogProcessor.run and the signals it emits;              *)
(*   SpecAccum    add_iteration and clear_all of the window;              *)
(*   SpecWindow   the window with its LogProcessor threads.               *)
(***************************************************************************)
EXTENDS Integers, Sequences, FiniteSets, TLC

VARIABLES analyzer, mode, pc, nlines,
          start_time, start_line, current_marker,
          heights_by_marker, end_times_by_marker, result,
          first_start, height_extracted, end_extracted, scenario,
          lines, log_content, iteration_pairs, pair_idx, results,
          text_line, extracted, signals,
          all_iterations_data, current_iteration, log_processors,
          self_results, added

\* The input and the returned value of one extract_start_timestamp call.
extract_vars == <<text_line, extracted>>

\* The signals a LogProcessor run has emitted.
run_vars == <<signals>>

\* The window: the accumulated text, the iteration counter, the LogProcessor
\* threads started, the displayed results, and the logs added since the
\* last clear_all.
gui_vars == <<all_iterations_data, current_iteration, log_processors,
              self_results, added>>

vars == <<analyzer, mode, pc, nlines, start_time, start_line, current_marker,
          heights_by_marker, end_times_by_marker, result,
          first_start, height_extracted, end_extracted, scenario,
          lines, log_content, iteration_pairs, pair_idx, results,
          extract_vars, run_vars, gui_vars>>

\* Longest segment (number of lines) that is scanned.
MaxLines == 5

\* Python's None where an integer is expected.
None == 0 - 1

\* Truth value of an optional integer in an `if x:` / `if not x:` test:
\* None and 0 are both false.
Truthy(x) == x # None /\ x # 0

\* No extract_start_timestamp call, no LogProcessor run and no window take
\* part.
NoExtract == text_line = <<>> /\ extracted = 0 - 1
NoRun == signals = <<>>
NoWindow ==
    /\ all_iterations_data = <<>>
    /\ current_iteration = 1
    /\ log_processors = <<>>
    /\ self_results = <<>>
    /\ added = <<>>

Analyzers == {"calculator", "LogProcessor"}
Modes == {"default", "swipe", "suspend"}

-----------------------------------------------------------------------------
(* Digit strings *)

RECURSIVE StrToInt(_)
\* int(s) for a non-empty string of decimal digits.
StrToInt(s) ==
    IF s = <<>> THEN 0
    ELSE StrToInt(SubSeq(s, 1, Len(s) - 1)) * 10 + s[Len(s)]

\* s[-n:]
LastN(s, n) == IF Len(s) <= n THEN s ELSE SubSeq(s, Len(s) - n + 1, Len(s))

\* s[:n]
FirstN(s, n) == IF Len(s) <= n THEN s ELSE SubSeq(s, 1, n)

RECURSIVE ZFill(_, _)
\* s.zfill(n)
ZFill(s, n) == IF Len(s) >= n THEN s ELSE ZFill(<<0>> \o s, n)

-----------------------------------------------------------------------------
(* Log lines *)

\* trig/A/B : the trigger phrase on the line and its timestamp A.B
\*            "up"   = 'button 1 up A.B'
\*            "down" = 'Sending button 1 down A.B'
\*            "pb"   = 'def:pbpress:time=A.B:Power button pressed'
\* epdc     : digits captured by  EPDC\]\[(\d+)\]
\* mxc      : digits captured by  mxc_epdc_fb: \[(\d+)\]
\* sending  : the line contains 'Sending update'
\* height   : digits captured by  height=(\d+)
\* wfcap    : <<group 1>> of the first matching waveform pattern, or <<>>
\* endmarker: digits captured by  update end marker=(\d+)
\* endtime  : digits captured by  end time=(\d+)
\* blank    : line.strip() is empty
Line(trig, A, B, epdc, mxc, sending, height, wfcap, endmarker, endtime) ==
    [blank |-> FALSE, trig |-> trig, A |-> A, B |-> B, epdc |-> epdc,
     mxc |-> mxc, sending |-> sending, height |-> height, wfcap |-> wfcap,
     endmarker |-> endmarker, endtime |-> endtime]

NoLine == Line("none", <<>>, <<>>, <<>>, <<>>, FALSE, <<>>, <<>>, <<>>, <<>>)

\* ''
BlankLine == [NoLine EXCEPT !.blank = TRUE]
\* '[x] Another log line'
OtherLine == NoLine

TrigLine(trig, A, B) == [NoLine EXCEPT !.trig = trig, !.A = A, !.B = B]
\* '[x] EPDC][m] ...'
MarkerLine(m) == [NoLine EXCEPT !.epdc = m]
\* '[x] Sending update. height=h waveform:0x1 (w)'
UpdateLine(h, w) == [NoLine EXCEPT !.sending = TRUE, !.height = h, !.wfcap = w]
\* '[x] mxc_epdc_fb: [m] Sending update. height=h waveform:0x1 (w)'
MarkedUpdateLine(m, h, w) == [UpdateLine(h, w) EXCEPT !.mxc = m]
\* '[x] update end marker=m end time=t'
EndLine(m, t) == [NoLine EXCEPT !.endmarker = m, !.endtime = t]

M5 == <<5>>
M12 == <<1, 2>>
M05 == <<0, 5>>
M3 == <<3>>

H800 == <<8, 0, 0>>
H600 == <<6, 0, 0>>

\* '[x] button 1 up 123456.789'
ButtonUpLine == TrigLine("up", <<1, 2, 3, 4, 5, 6>>, <<7, 8, 9>>)
\* '[x] EPDC][5] ...'
Marker5Line == MarkerLine(M5)
\* '[x] Sending update. height=800 waveform:0x1 (REAGL)'
ReaglLine == UpdateLine(H800, <<"REAGL">>)
\* '[x] update end marker=5 end time=111222'
End5Line == EndLine(M5, <<1, 1, 1, 2, 2, 2>>)

StartLines ==
    { ButtonUpLine,
      TrigLine("up", <<0>>, <<7, 8, 9>>),             \* button 1 up 0.789
      TrigLine("up", <<0, 0, 0>>, <<0, 0, 0>>),       \* button 1 up 000.000
      TrigLine("down", <<1, 2, 3, 4, 5, 6>>, <<7, 8, 9>>),
      TrigLine("pb", <<1, 2, 3, 4, 5, 6>>, <<7, 8, 9>>) }

MarkerLines == { Marker5Line }

UpdateLines ==
    { ReaglLine,
      UpdateLine(H800, <<>>),                         \* no waveform on the line
      MarkedUpdateLine(M12, H800, <<"DU">>),
      MarkedUpdateLine(M12, H600, <<"REAGL">>),
      MarkedUpdateLine(M05, H800, <<"REAGL">>),
      MarkedUpdateLine(M05, <<9, 0, 0>>, <<"UNKNOWN">>),
      MarkedUpdateLine(M3, H800, <<"REAGL">>) }

EndLines ==
    { End5Line,
      EndLine(M12, <<4, 5, 6>>),
      EndLine(M12, <<7, 9, 9, 9, 0, 0, 0>>),           \* 7 digits
      EndLine(M05, <<5, 0, 0, 0>>),
      EndLine(M12, <<0, 0, 0, 0, 0, 0>>) }

Lines == {BlankLine, OtherLine} \cup StartLines \cup MarkerLines
         \cup UpdateLines \cup EndLines

\* The segment of the end-to-end scenario: the text after 'ITERATION_01',
\* split on '\n' (the first piece is the empty rest of the token's line).
ScenarioLines == <<BlankLine, ButtonUpLine, Marker5Line, ReaglLine, End5Line>>

-----------------------------------------------------------------------------
(* Event extractors (event_parser.py, final_kindle_analyzer.py) *)

\* A variant that takes the first 3 digits of both parts.
ThreePlusThree_FirstThree(A, B) == StrToInt(FirstN(A, 3) \o FirstN(B, 3))

\* int(parts[0][-3:] + parts[1][:3])
ThreePlusThree(A, B) == StrToInt(LastN(A, 3) \o FirstN(B, 3))

DefaultExtractStart(l) ==
    IF l.trig = "up" THEN ThreePlusThree(l.A, l.B) ELSE None

SwipeExtractStart(l) ==
    IF l.trig = "down" THEN ThreePlusThree(l.A, l.B) ELSE None

FixedSuspendExtractStart(l) ==
    IF l.trig = "pb" THEN ThreePlusThree(l.A, l.B) ELSE None

\* Group 1 of the first pattern of SuspendEventParser that matches the line,
\* <<>> when none does.  On 'def:pbpress:time=A.B:Power button pressed' the
\* first pattern (time=(\d+):Power) fails at the '.', the second needs text
\* after 'Power button pressed', and the third, pbpress.*time[=:](\d+),
\* captures A.  The other lines carry neither 'power' nor 'pb'.
SuspendCapture(l) == IF l.trig = "pb" THEN l.A ELSE <<>>

\* A variant that keeps the first 6 digits of a longer timestamp.
TimestampValue_First6(timestamp_str) ==
    IF Len(timestamp_str) > 6 THEN StrToInt(FirstN(timestamp_str, 6))
    ELSE IF Len(timestamp_str) = 6 THEN StrToInt(timestamp_str)
    ELSE StrToInt(ZFill(timestamp_str, 6))

\* The integer returned for the captured digit string.
TimestampValue(timestamp_str) ==
    IF Len(timestamp_str) > 6 THEN StrToInt(LastN(timestamp_str, 6))
    ELSE IF Len(timestamp_str) = 6 THEN StrToInt(timestamp_str)
    ELSE StrToInt(ZFill(timestamp_str, 6))

SuspendExtractStart(l) ==
    LET timestamp_str == SuspendCapture(l) IN
    IF timestamp_str = <<>> THEN None ELSE TimestampValue(timestamp_str)

\* A variant in which LogProcessor uses the default parser in swipe mode.
ExtractStartTimestamp_SwipeAsDefault(a, m, l) ==
    IF a = "calculator"
    THEN (IF m = "suspend" THEN SuspendExtractStart(l)
          ELSE IF m = "swipe" THEN SwipeExtractStart(l)
          ELSE DefaultExtractStart(l))
    ELSE (IF m = "suspend" THEN FixedSuspendExtractStart(l)
          ELSE DefaultExtractStart(l))

\* parser.extract_start_timestamp(line), for the parser each analyzer builds
\* for the mode.
ExtractStartTimestamp(a, m, l) ==
    IF a = "calculator"
    THEN (IF m = "suspend" THEN SuspendExtractStart(l)
          ELSE IF m = "swipe" THEN SwipeExtractStart(l)
          ELSE DefaultExtractStart(l))
    ELSE (IF m = "suspend" THEN FixedSuspendExtractStart(l)
          ELSE IF m = "default" THEN DefaultExtractStart(l)
          ELSE SwipeExtractStart(l))

\* The marker id as a string, <<>> for None.
ExtractMarker(l) == IF l.epdc # <<>> THEN l.epdc ELSE l.mxc

\* str.strip() on the captured waveform names of the line alphabet.
Strip(s) == IF s = " " THEN "" ELSE s

\* str.lower() on the waveform names of the line alphabet.
Lower(s) ==
    CASE s = "UNKNOWN" -> "unknown"
      [] s = "REAGL" -> "reagl"
      [] s = "DU" -> "du"
      [] OTHER -> s

\* A variant that returns the waveform of a line without height, with height 0.
ExtractHeightAndWaveform_WaveformOnly(l) ==
    IF l.height # <<>>
    THEN << [height |-> StrToInt(l.height),
             waveform |-> IF l.wfcap # <<>> /\ Strip(l.wfcap[1]) # ""
                          THEN Strip(l.wfcap[1]) ELSE "unknown"] >>
    ELSE IF l.wfcap # <<>>
    THEN << [height |-> 0, waveform |-> Strip(l.wfcap[1])] >>
    ELSE <<>>

\* <<[height, waveform]>>, or <<>> for None.
ExtractHeightAndWaveform(l) ==
    LET waveform_name == IF l.wfcap = <<>> THEN <<>> ELSE <<Strip(l.wfcap[1])>>
    IN  IF l.height # <<>>
        THEN << [height |-> StrToInt(l.height),
                 waveform |-> IF waveform_name # <<>> /\ waveform_name[1] # ""
                              THEN waveform_name[1] ELSE "unknown"] >>
        ELSE <<>>

\* A variant that keeps the last 3 digits only.
ExtractEndTimestamp_Last3(l) ==
    IF l.endtime # <<>> THEN StrToInt(LastN(l.endtime, 3)) ELSE None

\* A variant that converts the whole captured string.
ExtractEndTimestamp_Whole(l) ==
    IF l.endtime # <<>> THEN StrToInt(l.endtime) ELSE None

ExtractEndTimestamp(l) ==
    IF l.endtime # <<>> THEN StrToInt(LastN(l.endtime, 6)) ELSE None

-----------------------------------------------------------------------------
(* Python dicts: a sequence of [key, val] in insertion order *)

DictHas(d, k) == \E i \in 1..Len(d) : d[i].key = k

DictGet(d, k) == d[CHOOSE i \in 1..Len(d) : d[i].key = k].val

\* A variant in which an existing key keeps its value.
DictSet_KeepFirst(d, k, v) ==
    IF DictHas(d, k) THEN d ELSE Append(d, [key |-> k, val |-> v])

\* A variant in which a written key always goes last.
DictSet_MoveToEnd(d, k, v) ==
    LET other(e) == e.key # k
    IN  Append(SelectSeq(d, other), [key |-> k, val |-> v])

\* d[k] = v : an existing key keeps its position, a new key goes last.
DictSet(d, k, v) ==
    IF DictHas(d, k)
    THEN [i \in 1..Len(d) |-> IF d[i].key = k THEN [key |-> k, val |-> v] ELSE d[i]]
    ELSE Append(d, [key |-> k, val |-> v])

-----------------------------------------------------------------------------
(* The selection algorithm of process_iteration *)

\* A variant of the gate that forgets the start time.
MissingData_NoStart(st, heights, ends) == heights = <<>> \/ ends = <<>>

\* `if not start_time or not heights_by_marker or not end_times_by_marker`
MissingData(st, heights, ends) == ~Truthy(st) \/ heights = <<>> \/ ends = <<>>

\* A variant that compares the waveform with "unknown" case-sensitively.
ValidHeights_CaseSensitive(heights) ==
    LET known(e) == e.val.waveform # "unknown"
        valid == SelectSeq(heights, known)
    IN  IF valid = <<>> THEN heights ELSE valid

\* valid_heights: the entries whose waveform is not "unknown", all of them
\* when that leaves nothing.
ValidHeights(heights) ==
    LET known(e) == Lower(e.val.waveform) # "unknown"
        valid == SelectSeq(heights, known)
    IN  IF valid = <<>> THEN heights ELSE valid

\* A variant that takes the minimum.
MaxHeight_Min(valid) ==
    LET hs == {valid[i].val.height : i \in 1..Len(valid)}
    IN  CHOOSE h \in hs : \A g \in hs : h <= g

\* max(info['height'] for info in valid_heights.values())
MaxHeight(valid) ==
    LET hs == {valid[i].val.height : i \in 1..Len(valid)}
    IN  CHOOSE h \in hs : \A g \in hs : g <= h

\* [marker for marker, info in valid_heights.items() if info['height'] == max_height]
MaxHeightMarkers(valid) ==
    LET top(e) == e.val.height = MaxHeight(valid)
        sel == SelectSeq(valid, top)
    IN  [i \in 1..Len(sel) |-> sel[i].key]

\* m.isdigit(), for a string of decimal digits
IsDigit(m) == m # <<>>

\* A variant that orders the ids by their first character (as strings).
SortKey_FirstDigit(m) == IF IsDigit(m) THEN m[1] ELSE 0

\* key=lambda m: int(m) if m.isdigit() else 0
SortKey(m) == IF IsDigit(m) THEN StrToInt(m) ELSE 0

RECURSIVE InsertByKey(_, _)
\* x inserted into the sorted sequence s after every element whose key is
\* not greater than x's.
InsertByKey(s, x) ==
    IF s = <<>> THEN <<x>>
    ELSE IF SortKey(s[Len(s)]) <= SortKey(x) THEN Append(s, x)
    ELSE Append(InsertByKey(SubSeq(s, 1, Len(s) - 1), x), s[Len(s)])

RECURSIVE SortMarkers(_)
\* list.sort(key=...): ascending by key, equal keys keep their order.
SortMarkers(s) ==
    IF s = <<>> THEN <<>>
    ELSE InsertByKey(SortMarkers(SubSeq(s, 1, Len(s) - 1)), s[Len(s)])

\* max_height_markers[-1] if max_height_markers else list(valid_heights.keys())[0]
ChosenMarker(valid) ==
    LET max_height_markers == SortMarkers(MaxHeightMarkers(valid))
    IN  IF max_height_markers # <<>>
        THEN max_height_markers[Len(max_height_markers)]
        ELSE valid[1].key

\* A variant that takes the first end time recorded.
MaxEndTime_First(ends) == ends[1].val.time

\* max(end_times_by_marker.values(), key=lambda x: x['time'])['time']
MaxEndTime(ends) ==
    LET ts == {ends[i].val.time : i \in 1..Len(ends)}
    IN  CHOOSE t \in ts : \A u \in ts : u <= t

\* A variant that always takes the maximum end time.
StopTime_AlwaysMax(chosen_marker, ends) ==
    IF ends # <<>> THEN MaxEndTime(ends) ELSE None

\* max_height_end_time, None when there is no end time at all.
StopTime(chosen_marker, ends) ==
    IF DictHas(ends, chosen_marker) THEN DictGet(ends, chosen_marker).time
    ELSE IF ends # <<>> THEN MaxEndTime(ends)
    ELSE None

Abs(x) == IF x < 0 THEN 0 - x ELSE x

Min(a, b) == IF a <= b THEN a ELSE b

\* A variant that keeps the sign of the difference.
Duration_NoAbs(a, stop, start) ==
    IF a = "calculator" THEN [num |-> stop - start, den |-> 1]
    ELSE [num |-> stop - start, den |-> 1000]

\* The duration as the fraction num/den: calculator keeps the integer,
\* LogProcessor divides it by 1000.0.
Duration(a, stop, start) ==
    LET raw == stop - start
        duration == IF raw < 0 THEN Abs(raw) ELSE raw
    IN  IF a = "calculator" THEN [num |-> duration, den |-> 1]
        ELSE [num |-> duration, den |-> 1000]

\* [{'marker': m, 'height': ..., 'waveform': ...} for m, h in heights_by_marker.items()]
\* A variant that lists only the first marker.
AllHeights_FirstOnly(heights) ==
    [i \in 1..Min(1, Len(heights)) |->
        [marker |-> heights[i].key, height |-> heights[i].val.height,
         waveform |-> heights[i].val.waveform]]

AllHeights(heights) ==
    [i \in 1..Len(heights) |->
        [marker |-> heights[i].key, height |-> heights[i].val.height,
         waveform |-> heights[i].val.waveform]]

\* The value process_iteration returns after the scan: <<>> for None,
\* <<record>> otherwise.
ProcessResult(a, m, iteration_num, st, sl, heights, ends) ==
    IF MissingData(st, heights, ends) THEN <<>>
    ELSE
      LET valid_heights == ValidHeights(heights)
          chosen_marker == ChosenMarker(valid_heights)
          max_height_info == DictGet(valid_heights, chosen_marker)
          max_height_end_time == StopTime(chosen_marker, ends)
          common == [start |-> st,
                     stop |-> max_height_end_time,
                     marker |-> chosen_marker,
                     duration |-> Duration(a, max_height_end_time, st),
                     max_height |-> max_height_info.height,
                     max_height_waveform |-> max_height_info.waveform,
                     all_heights |-> AllHeights(heights),
                     mode |-> m]
      IN  IF max_height_end_time = None THEN <<>>
          ELSE IF a = "calculator"
          THEN << common @@ [iteration |-> iteration_num] >>
          ELSE << common @@ [iteration |-> StrToInt(iteration_num),
                             start_line |-> sl,
                             all_end_times |-> ends] >>

-----------------------------------------------------------------------------
(* One pass of the scan loop, as a function of the locals *)

\* A variant that keeps the name "auto".
NormaliseWaveform_KeepAuto(w) == IF w # "" THEN w ELSE "unknown"

\* `waveform if waveform and waveform != "auto" else "unknown"`
NormaliseWaveform(w) == IF w # "" /\ w # "auto" THEN w ELSE "unknown"

\* A variant in which the current marker does not outlive its line.
CurrentMarkerAfter_NoPersist(cm, l) == ExtractMarker(l)

\* `marker = parser.extract_marker(line); if marker: current_marker = marker`
CurrentMarkerAfter(cm, l) ==
    LET marker == ExtractMarker(l) IN IF marker # <<>> THEN marker ELSE cm

\* The line writes heights_by_marker[cm], cm being the current marker after
\* the line's own marker id has been taken.
StoresHeight(cm, l) ==
    l.sending /\ cm # <<>> /\ ExtractHeightAndWaveform(l) # <<>>

\* The line writes end_times_by_marker[l.endmarker].
StoresEnd(l) ==
    l.endmarker # <<>> /\ l.endtime # <<>> /\ Truthy(ExtractEndTimestamp(l))

\* The locals of process_iteration before the loop.
InitScan ==
    [start_time |-> None, start_line |-> <<>>, current_marker |-> <<>>,
     heights_by_marker |-> <<>>, end_times_by_marker |-> <<>>]

\* The body of `for line in lines:` on the line l, from the locals s.
ScanStep(a, m, s, l) ==
    IF l.blank THEN s
    ELSE
      LET possible_start == ExtractStartTimestamp(a, m, l)
          found_start == ~Truthy(s.start_time) /\ Truthy(possible_start)
          cm == CurrentMarkerAfter(s.current_marker, l)
          height_waveform == ExtractHeightAndWaveform(l)
      IN  [start_time |-> IF found_start THEN possible_start ELSE s.start_time,
           start_line |-> IF found_start /\ a = "LogProcessor"
                          THEN <<l>> ELSE s.start_line,
           current_marker |-> cm,
           heights_by_marker |->
              IF StoresHeight(cm, l)
              THEN DictSet(s.heights_by_marker, cm,
                     [height |-> height_waveform[1].height,
                      waveform |-> NormaliseWaveform(height_waveform[1].waveform),
                      line |-> l])
              ELSE s.heights_by_marker,
           end_times_by_marker |->
              IF StoresEnd(l)
              THEN DictSet(s.end_times_by_marker, l.endmarker,
                           [time |-> ExtractEndTimestamp(l), line |-> l])
              ELSE s.end_times_by_marker]

-----------------------------------------------------------------------------
(* The state machine: one segment scanned line by line *)

\* The label of the segment, "01".
IterationNum == <<0, 1>>

\* The locals of the running process_iteration call.
Locals ==
    [start_time |-> start_time, start_line |-> start_line,
     current_marker |-> current_marker,
     heights_by_marker |-> heights_by_marker,
     end_times_by_marker |-> end_times_by_marker]

Init ==
    /\ analyzer \in Analyzers
    /\ mode \in Modes
    /\ pc = "scan"
    /\ nlines = 0
    /\ start_time = None
    /\ start_line = <<>>
    /\ current_marker = <<>>
    /\ heights_by_marker = <<>>
    /\ end_times_by_marker = <<>>
    /\ result = <<>>
    /\ first_start = None
    /\ height_extracted = FALSE
    /\ end_extracted = FALSE
    /\ scenario = 0
    /\ lines = <<>>
    /\ log_content = <<>>
    /\ iteration_pairs = <<>>
    /\ pair_idx = 0
    /\ results = <<>>
    /\ NoExtract
    /\ NoRun
    /\ NoWindow

\* One pass of `for line in lines:` on the line l.
ScanLine(l) ==
    /\ pc = "scan"
    /\ nlines < MaxLines
    /\ \E s \in {ScanStep(analyzer, mode, Locals, l)} :
       LET possible_start == ExtractStartTimestamp(analyzer, mode, l)
           stores_height == ~l.blank /\ StoresHeight(s.current_marker, l)
       IN
       /\ nlines' = nlines + 1
       /\ start_time' = s.start_time
       /\ start_line' = s.start_line
       /\ current_marker' = s.current_marker
       /\ heights_by_marker' = s.heights_by_marker
       /\ end_times_by_marker' = s.end_times_by_marker
       /\ height_extracted' = (height_extracted \/ stores_height)
       /\ end_extracted' =
            (end_extracted \/ (~l.blank /\ l.endmarker # <<>>
                               /\ ExtractEndTimestamp(l) # None))
       /\ first_start' = IF first_start = None THEN possible_start ELSE first_start
       /\ scenario' = IF scenario = nlines /\ nlines < Len(ScenarioLines)
                         /\ l = ScenarioLines[nlines + 1]
                      THEN nlines + 1 ELSE None
    /\ UNCHANGED <<analyzer, mode, pc, result, lines,
                   log_content, iteration_pairs, pair_idx, results,
                   extract_vars, run_vars, gui_vars>>

\* The end of the loop: the gate, the selection and the returned value.
Return ==
    /\ pc = "scan"
    /\ pc' = "done"
    /\ result' = ProcessResult(analyzer, mode, IterationNum, start_time,
                               start_line, heights_by_marker, end_times_by_marker)
    /\ UNCHANGED <<analyzer, mode, nlines, start_time, start_line,
                   current_marker, heights_by_marker, end_times_by_marker,
                   first_start, height_extracted, end_extracted, scenario,
                   lines, log_content, iteration_pairs, pair_idx, results,
                   extract_vars, run_vars, gui_vars>>

Next == (\E l \in Lines : ScanLine(l)) \/ Return

Spec == Init /\ [][Next]_vars

-----------------------------------------------------------------------------
(* One whole call of process_iteration on a given list of lines *)

\* Longest list of lines given to one call.
MaxIterLines == 5

RECURSIVE ScanAll(_, _, _, _)
\* The locals after `for line in lines:` has run over ls, from the locals s.
ScanAll(a, m, s, ls) ==
    IF ls = <<>> THEN s
    ELSE ScanAll(a, m, ScanStep(a, m, s, Head(ls)), Tail(ls))

\* process_iteration(lines, iteration_num, mode, parser)
ProcessIteration(a, m, iteration_num, ls) ==
    LET s == ScanAll(a, m, InitScan, ls)
    IN  ProcessResult(a, m, iteration_num, s.start_time, s.start_line,
                      s.heights_by_marker, s.end_times_by_marker)

\* '[x] update end marker=12 end time=456'
End12Line == EndLine(M12, <<4, 5, 6>>)

\* '[x] Sending update. waveform:0x1 (DU)'
NoHeightLine == UpdateLine(<<>>, <<"DU">>)

\* The lines of the calls: a start, a marker id alone, an update without
\* marker id and without waveform, one with a waveform and without height,
\* updates with a marker id and the waveform names REAGL, auto and the empty
\* name '( )', and an end.
IterLines ==
    { ButtonUpLine, Marker5Line, End12Line,
      UpdateLine(H800, <<>>), NoHeightLine,
      MarkedUpdateLine(M12, H600, <<"REAGL">>),
      MarkedUpdateLine(M3, <<9, 0, 0>>, <<"auto">>),
      MarkedUpdateLine(M3, <<9, 0, 0>>, <<" ">>) }

SeqsUpTo(S, n) == UNION {[1..k -> S] : k \in 0..n}

InitIter ==
    /\ analyzer = "calculator"
    /\ mode = "default"
    /\ pc = "call"
    /\ lines \in SeqsUpTo(IterLines, MaxIterLines)
    /\ nlines = 0
    /\ start_time = None
    /\ start_line = <<>>
    /\ current_marker = <<>>
    /\ heights_by_marker = <<>>
    /\ end_times_by_marker = <<>>
    /\ result = <<>>
    /\ first_start = None
    /\ height_extracted = FALSE
    /\ end_extracted = FALSE
    /\ scenario = 0
    /\ log_content = <<>>
    /\ iteration_pairs = <<>>
    /\ pair_idx = 0
    /\ results = <<>>
    /\ NoExtract
    /\ NoRun
    /\ NoWindow

\* calculator.process_iteration(lines, "01", mode, parser), from its first
\* statement to its return.
RunIteration ==
    /\ pc = "call"
    /\ pc' = "done"
    /\ nlines' = Len(lines)
    /\ \E s \in {ScanAll(analyzer, mode, InitScan, lines)} :
         /\ start_time' = s.start_time
         /\ start_line' = s.start_line
         /\ current_marker' = s.current_marker
         /\ heights_by_marker' = s.heights_by_marker
         /\ end_times_by_marker' = s.end_times_by_marker
         /\ result' = ProcessResult(analyzer, mode, IterationNum,
                                    s.start_time, s.start_line,
                                    s.heights_by_marker, s.end_times_by_marker)
    /\ UNCHANGED <<analyzer, mode, lines, first_start, height_extracted,
                   end_extracted, scenario,
                   log_content, iteration_pairs, pair_idx, results,
                   extract_vars, run_vars, gui_vars>>

NextIter == RunIteration

SpecIter == InitIter /\ [][NextIter]_vars

-----------------------------------------------------------------------------
(* process_log_content: the segmenter and the loop over the segments *)

\* Longest log text, in pieces of TextPieces.
MaxTextLen == 5

\* A log text is a sequence of characters; a whole log line that holds no
\* 'ITERATION_' and starts with '[' stands as one character, its final
\* newline included:
\*   "I"  the word 'ITERATION_'          "0", "1", "2"  a digit
\*   "NL" a newline
\*   "R"  '[x] button 1 up 123456.789 mxc_epdc_fb: [12] Sending update.
\*         height=600 waveform:0x1 (REAGL) update end marker=12 end time=456\n'
\*   "E"  '[x] update end marker=12 end time=456\n'
Digits10 == <<"0", "1", "2", "3", "4", "5", "6", "7", "8", "9">>
DigitChars == {Digits10[i] : i \in 1..Len(Digits10)}
LineChars == {"R", "E"}

DigitVal(c) == (CHOOSE i \in 1..Len(Digits10) : Digits10[i] = c) - 1

\* The pieces the texts are made of: 'ITERATION_1', 'ITERATION_2', '0',
\* 'ITERATION_', a newline, and the two lines.
TextPieces ==
    { <<"I", "1">>, <<"I", "2">>, <<"0">>, <<"I">>, <<"NL">>,
      <<"R">>, <<"E">> }

RECURSIVE Concat(_)
Concat(ps) == IF ps = <<>> THEN <<>> ELSE Head(ps) \o Concat(Tail(ps))

Texts == {Concat(ps) : ps \in SeqsUpTo(TextPieces, MaxTextLen)}

\* What the extractors capture on the line "R" (on "E": End12Line).
FullLine ==
    Line("up", <<1, 2, 3, 4, 5, 6>>, <<7, 8, 9>>, <<>>, M12, TRUE, H600,
         <<"REAGL">>, M12, <<4, 5, 6>>)

\* A variant of (\d+) that takes one digit.
DigitRun_One(cs, i) == 1

RECURSIVE DigitRun(_, _)
\* (\d+) : the number of digits of cs from position i on (greedy).
DigitRun(cs, i) ==
    IF i <= Len(cs) /\ cs[i] \in DigitChars THEN 1 + DigitRun(cs, i + 1) ELSE 0

RECURSIVE ReSplitFrom(_, _, _)
\* re.split(r'ITERATION_(\d+)', cs), i being the position reached and cur the
\* text since the last match: << text, digits, text, ..., digits, text >>.
ReSplitFrom(cs, i, cur) ==
    IF i > Len(cs) THEN << cur >>
    ELSE IF cs[i] = "I" /\ i < Len(cs) /\ cs[i + 1] \in DigitChars
    THEN LET n == DigitRun(cs, i + 1)
         IN  << cur, SubSeq(cs, i + 1, i + n) >> \o ReSplitFrom(cs, i + 1 + n, <<>>)
    ELSE ReSplitFrom(cs, i + 1, Append(cur, cs[i]))

ReSplit(cs) == ReSplitFrom(cs, 1, <<>>)

\* A variant without the single-segment fallback.
Fallback_Skip(iterations, text) == iterations

\* `if not iterations: iterations = ["01", log_content]`
Fallback(iterations, text) ==
    IF iterations = <<>> THEN << <<"0", "1">>, text >> ELSE iterations

\* The pairing loop: (iterations[i], iterations[i+1]) for i = 0, 2, ...
\* while i+1 < len(iterations).
PairUp(iterations) ==
    [k \in 1..(Len(iterations) \div 2) |->
        [num |-> [j \in 1..Len(iterations[2 * k - 1]) |->
                     DigitVal(iterations[2 * k - 1][j])],
         content |-> iterations[2 * k]]]

\* iteration_pairs of process_log_content(text)
IterationPairs(text) == PairUp(Fallback(Tail(ReSplit(text)), text))

RECURSIVE SplitNewline(_, _, _)
\* content.split('\n') : the pieces between the newlines, a line character
\* ending its piece.
SplitNewline(cs, i, cur) ==
    IF i > Len(cs) THEN << cur >>
    ELSE IF cs[i] = "NL" THEN << cur >> \o SplitNewline(cs, i + 1, <<>>)
    ELSE IF cs[i] \in LineChars
    THEN << Append(cur, cs[i]) >> \o SplitNewline(cs, i + 1, <<>>)
    ELSE SplitNewline(cs, i + 1, Append(cur, cs[i]))

\* What the extractors see on a piece: nothing on an empty piece, the
\* captures of its line if it ends with one (the digits or 'ITERATION_'
\* before the '[' change no capture), no capture on digits or 'ITERATION_'.
ParseLine(piece) ==
    IF piece = <<>> THEN BlankLine
    ELSE CASE piece[Len(piece)] = "R" -> FullLine
           [] piece[Len(piece)] = "E" -> End12Line
           [] OTHER -> OtherLine

\* lines = iteration_content.split('\n'), as the extractors see them.
LinesOf(content) ==
    LET pieces == SplitNewline(content, 1, <<>>)
    IN  [i \in 1..Len(pieces) |-> ParseLine(pieces[i])]

\* A variant in which a call starts from the locals the last call left.
ScanStart_CarryOver(prev) == prev

\* The locals at the start of a call of process_iteration, prev being those
\* the previous call ended with: start_time = None, current_marker = None,
\* end_times_by_marker = {}, heights_by_marker = {}.
ScanStart(prev) == InitScan

\* A variant that puts the newest result first.
AppendResult_First(rs, r) == IF r # <<>> THEN r \o rs ELSE rs

\* `if result: results.append(result)`
AppendResult(rs, r) == IF r # <<>> THEN Append(rs, r[1]) ELSE rs

InitLog ==
    /\ analyzer = "calculator"
    /\ mode = "default"
    /\ pc = "split"
    /\ log_content \in Texts
    /\ iteration_pairs = <<>>
    /\ pair_idx = 0
    /\ results = <<>>
    /\ lines = <<>>
    /\ nlines = 0
    /\ start_time = None
    /\ start_line = <<>>
    /\ current_marker = <<>>
    /\ heights_by_marker = <<>>
    /\ end_times_by_marker = <<>>
    /\ result = <<>>
    /\ first_start = None
    /\ height_extracted = FALSE
    /\ end_extracted = FALSE
    /\ scenario = 0
    /\ NoExtract
    /\ NoRun
    /\ NoWindow

\* The split, the fallback and the pairing loop.
SplitContent ==
    /\ pc = "split"
    /\ pc' = "loop"
    /\ iteration_pairs' = IterationPairs(log_content)
    /\ UNCHANGED <<analyzer, mode, nlines, start_time, start_line,
                   current_marker, heights_by_marker, end_times_by_marker,
                   result, first_start, height_extracted, end_extracted,
                   scenario, lines, log_content, pair_idx, results,
                   extract_vars, run_vars, gui_vars>>

\* One pass of `for iteration_num, iteration_content in iteration_pairs:`.
ProcessPair ==
    /\ pc = "loop"
    /\ pair_idx < Len(iteration_pairs)
    /\ LET iteration_num == iteration_pairs[pair_idx + 1].num
           iteration_content == iteration_pairs[pair_idx + 1].content
       IN  \E ls \in {LinesOf(iteration_content)} :
           \E s \in {ScanAll(analyzer, mode, ScanStart(Locals), ls)} :
           \E r \in {ProcessResult(analyzer, mode, iteration_num,
                                    s.start_time, s.start_line,
                                    s.heights_by_marker,
                                    s.end_times_by_marker)} :
             /\ lines' = ls
             /\ nlines' = Len(ls)
             /\ start_time' = s.start_time
             /\ start_line' = s.start_line
             /\ current_marker' = s.current_marker
             /\ heights_by_marker' = s.heights_by_marker
             /\ end_times_by_marker' = s.end_times_by_marker
             /\ result' = r
             /\ results' = AppendResult(results, r)
    /\ pair_idx' = pair_idx + 1
    /\ UNCHANGED <<analyzer, mode, pc, first_start, height_extracted,
                   end_extracted, scenario, log_content, iteration_pairs,
                   extract_vars, run_vars, gui_vars>>

\* `return results`
ReturnResults ==
    /\ pc = "loop"
    /\ pair_idx = Len(iteration_pairs)
    /\ pc' = "returned"
    /\ UNCHANGED <<analyzer, mode, nlines, start_time, start_line,
                   current_marker, heights_by_marker, end_times_by_marker,
                   result, first_start, height_extracted, end_extracted,
                   scenario, lines, log_content, iteration_pairs, pair_idx,
                   results,
                   extract_vars, run_vars, gui_vars>>

NextLog == SplitContent \/ ProcessPair \/ ReturnResults

SpecLog == InitLog /\ [][NextLog]_vars

-----------------------------------------------------------------------------
(* LogProcessor.run: the signals of one run *)

\* Longest log text given to a run, in pieces of TextPieces.
MaxRunLen == 4

RunTexts == {Concat(ps) : ps \in SeqsUpTo(TextPieces, MaxRunLen)}

\* A line without its final newline: "r" for "R", "e" for "E".
Bare(c) == IF c = "R" THEN "r" ELSE "e"

RECURSIVE LStrip(_)
LStrip(cs) == IF cs # <<>> /\ Head(cs) = "NL" THEN LStrip(Tail(cs)) ELSE cs

RECURSIVE RStrip(_)
RStrip(cs) ==
    IF cs = <<>> THEN cs
    ELSE LET last == cs[Len(cs)]
             front == SubSeq(cs, 1, Len(cs) - 1)
         IN  IF last = "NL" THEN RStrip(front)
             ELSE IF last \in LineChars THEN Append(front, Bare(last))
             ELSE cs

\* text.strip(): the newlines at both ends removed, the final newline of a
\* last line included.
StripText(cs) == RStrip(LStrip(cs))

Progress(sigs, n) == Append(sigs, [sig |-> "progress_updated", val |-> n])

\* A variant that spreads the segments over 0..100.
SegmentProgress_FromZero(idx, total_iterations) ==
    ((idx + 1) * 100) \div total_iterations

\* progress = 50 + (idx + 1) * 40 // total_iterations
SegmentProgress(idx, total_iterations) ==
    50 + ((idx + 1) * 40) \div total_iterations

InitRun ==
    /\ analyzer = "LogProcessor"
    /\ mode = "default"
    /\ pc = "run"
    /\ log_content \in RunTexts
    /\ signals = <<>>
    /\ iteration_pairs = <<>>
    /\ pair_idx = 0
    /\ results = <<>>
    /\ lines = <<>>
    /\ nlines = 0
    /\ start_time = None
    /\ start_line = <<>>
    /\ current_marker = <<>>
    /\ heights_by_marker = <<>>
    /\ end_times_by_marker = <<>>
    /\ result = <<>>
    /\ first_start = None
    /\ height_extracted = FALSE
    /\ end_extracted = FALSE
    /\ scenario = 0
    /\ NoExtract
    /\ NoWindow

\* self.progress_updated.emit(10)
RunStart ==
    /\ pc = "run"
    /\ pc' = "split"
    /\ signals' = Progress(signals, 10)
    /\ UNCHANGED <<analyzer, mode, nlines, start_time, start_line,
                   current_marker, heights_by_marker, end_times_by_marker,
                   result, first_start, height_extracted, end_extracted,
                   scenario, lines, log_content, iteration_pairs, pair_idx,
                   results, extract_vars, gui_vars>>

\* The split and the fallback, emit(30), the pairing loop, emit(50).
RunSplit ==
    /\ pc = "split"
    /\ pc' = "loop"
    /\ iteration_pairs' = IterationPairs(log_content)
    /\ signals' = Progress(Progress(signals, 30), 50)
    /\ UNCHANGED <<analyzer, mode, nlines, start_time, start_line,
                   current_marker, heights_by_marker, end_times_by_marker,
                   result, first_start, height_extracted, end_extracted,
                   scenario, lines, log_content, pair_idx, results,
                   extract_vars, gui_vars>>

\* One pass of `for idx, (iteration_num, iteration_content) in
\* enumerate(iteration_pairs):` that raises nothing.
RunSegment ==
    /\ pc = "loop"
    /\ pair_idx < Len(iteration_pairs)
    /\ LET iteration_num == iteration_pairs[pair_idx + 1].num
           iteration_content == iteration_pairs[pair_idx + 1].content
       IN  \E ls \in {LinesOf(iteration_content)} :
           \E s \in {ScanAll(analyzer, mode, ScanStart(Locals), ls)} :
           \E r \in {ProcessResult(analyzer, mode, iteration_num,
                                    s.start_time, s.start_line,
                                    s.heights_by_marker,
                                    s.end_times_by_marker)} :
             /\ lines' = ls
             /\ nlines' = Len(ls)
             /\ start_time' = s.start_time
             /\ start_line' = s.start_line
             /\ current_marker' = s.current_marker
             /\ heights_by_marker' = s.heights_by_marker
             /\ end_times_by_marker' = s.end_times_by_marker
             /\ result' = r
             /\ results' =
                   IF r # <<>>
                   THEN Append(results,
                               r[1] @@ [original_log |->
                                           StripText(iteration_content)])
                   ELSE results
    /\ pair_idx' = pair_idx + 1
    /\ signals' = Progress(signals,
                           SegmentProgress(pair_idx, Len(iteration_pairs)))
    /\ UNCHANGED <<analyzer, mode, pc, first_start, height_extracted,
                   end_extracted, scenario, log_content, iteration_pairs,
                   extract_vars, gui_vars>>

\* A pass of the loop in which process_iteration raises (int() refuses a
\* digit string beyond the interpreter's limit, memory runs out): the
\* handler emits error_occurred and run returns.
RunRaise ==
    /\ pc = "loop"
    /\ pair_idx < Len(iteration_pairs)
    /\ pc' = "ended"
    /\ signals' = Append(signals, [sig |-> "error_occurred", val |-> "e"])
    /\ UNCHANGED <<analyzer, mode, nlines, start_time, start_line,
                   current_marker, heights_by_marker, end_times_by_marker,
                   result, first_start, height_extracted, end_extracted,
                   scenario, lines, log_content, iteration_pairs, pair_idx,
                   results, extract_vars, gui_vars>>

\* After the loop: emit(100), then result_ready.
RunFinish ==
    /\ pc = "loop"
    /\ pair_idx = Len(iteration_pairs)
    /\ pc' = "ended"
    /\ signals' = Append(Progress(signals, 100),
                         [sig |-> "result_ready",
                          val |-> [results |-> results,
                                   total_iterations |-> Len(iteration_pairs)]])
    /\ UNCHANGED <<analyzer, mode, nlines, start_time, start_line,
                   current_marker, heights_by_marker, end_times_by_marker,
                   result, first_start, height_extracted, end_extracted,
                   scenario, lines, log_content, iteration_pairs, pair_idx,
                   results, extract_vars, gui_vars>>

NextRun == RunStart \/ RunSplit \/ RunSegment \/ RunRaise \/ RunFinish

SpecRun == InitRun /\ [][NextRun]_vars

-----------------------------------------------------------------------------
(* The window: add_iteration, clear_all, process_all_iterations *)

\* Most add_iteration calls that add a log, and most LogProcessor threads
\* started.
MaxAdds == 2
MaxRuns == 2

\* What the log input box can hold when Add is pressed: nothing, a newline,
\* lines with and without a final newline or surrounding newlines, the word
\* 'ITERATION_' without digits, digits, and a text holding 'ITERATION_1'.
LogInputs ==
    { <<>>, <<"NL">>,
      <<"R">>, <<"r">>, <<"E">>, <<"e">>, <<"NL", "E", "NL">>,
      <<"R", "NL", "e">>, <<"I">>, <<"R", "I">>, <<"1", "NL", "E">>,
      <<"0">>, <<"I", "NL", "1">>, <<"I", "1", "NL", "R">> }

\* What it holds in the runs that overlap.
OverlapInputs == { <<>>, <<"R">>, <<"E">> }

\* A variant that writes the counter without padding.
TwoDigits_NoPad(n) ==
    IF n < 10 THEN <<Digits10[n + 1]>>
    ELSE <<Digits10[(n \div 10) + 1], Digits10[(n % 10) + 1]>>

\* f"{n:02d}" for n < 100
TwoDigits(n) == <<Digits10[(n \div 10) + 1], Digits10[(n % 10) + 1]>>

\* f"\nITERATION_{self.current_iteration:02d}\n"
IterationHeader(n) == <<"NL", "I">> \o TwoDigits(n) \o <<"NL">>

\* text + "\n": the newline completes a last line that had none.
WithNewline(cs) ==
    IF cs # <<>> /\ cs[Len(cs)] \in {"r", "e"}
    THEN Append(SubSeq(cs, 1, Len(cs) - 1),
                IF cs[Len(cs)] = "r" THEN "R" ELSE "E")
    ELSE Append(cs, "NL")

RECURSIVE RunResultsFrom(_, _, _)
\* The loop of LogProcessor.run over the pairs, rs being the results so far.
RunResultsFrom(pairs, m, rs) ==
    IF pairs = <<>> THEN rs
    ELSE LET r == ProcessIteration("LogProcessor", m, Head(pairs).num,
                                   LinesOf(Head(pairs).content))
         IN  RunResultsFrom(
                 Tail(pairs), m,
                 IF r # <<>>
                 THEN Append(rs, r[1] @@ [original_log |->
                                             StripText(Head(pairs).content)])
                 ELSE rs)

\* data['results'] of the result_ready signal of a run on the text.
RunResults(text, m) == RunResultsFrom(IterationPairs(text), m, <<>>)

InitWindow ==
    /\ analyzer = "LogProcessor"
    /\ mode = "default"
    /\ pc = "window"
    /\ all_iterations_data = <<>>
    /\ current_iteration = 1
    /\ log_processors = <<>>
    /\ self_results = <<>>
    /\ added = <<>>
    /\ log_content = <<>>
    /\ iteration_pairs = <<>>
    /\ pair_idx = 0
    /\ results = <<>>
    /\ lines = <<>>
    /\ nlines = 0
    /\ start_time = None
    /\ start_line = <<>>
    /\ current_marker = <<>>
    /\ heights_by_marker = <<>>
    /\ end_times_by_marker = <<>>
    /\ result = <<>>
    /\ first_start = None
    /\ height_extracted = FALSE
    /\ end_extracted = FALSE
    /\ scenario = 0
    /\ NoExtract
    /\ NoRun

\* add_iteration with `text` in the log input box.  `added` lists the texts
\* added since the last clear_all.
AddIteration(text) ==
    /\ pc = "window"
    /\ current_iteration <= MaxAdds
    /\ LET stripped == StripText(text)
       IN  IF stripped = <<>>
           THEN UNCHANGED <<all_iterations_data, current_iteration>>
           ELSE /\ all_iterations_data' =
                      all_iterations_data \o IterationHeader(current_iteration)
                                          \o WithNewline(stripped)
                /\ current_iteration' = current_iteration + 1
    /\ added' = IF \E i \in 1..Len(text) : text[i] # "NL"
                THEN Append(added, text) ELSE added
    /\ UNCHANGED <<analyzer, mode, pc, nlines, start_time, start_line,
                   current_marker, heights_by_marker, end_times_by_marker,
                   result, first_start, height_extracted, end_extracted,
                   scenario, lines, log_content, iteration_pairs, pair_idx,
                   results, extract_vars, run_vars, log_processors,
                   self_results>>

\* clear_all.  The threads started are not stopped; `cleared` records that
\* clear_all ran after the thread was started.
ClearAll ==
    /\ pc = "window"
    /\ self_results' = <<>>
    /\ all_iterations_data' = <<>>
    /\ current_iteration' = 1
    /\ added' = <<>>
    /\ log_processors' = [i \in 1..Len(log_processors) |->
                             [log_processors[i] EXCEPT !.cleared = TRUE]]
    /\ UNCHANGED <<analyzer, mode, pc, nlines, start_time, start_line,
                   current_marker, heights_by_marker, end_times_by_marker,
                   result, first_start, height_extracted, end_extracted,
                   scenario, lines, log_content, iteration_pairs, pair_idx,
                   results, extract_vars, run_vars>>

\* process_all_iterations: a new LogProcessor on the text accumulated so far
\* is started; one that is still running keeps running.
ProcessAllIterations ==
    /\ pc = "window"
    /\ all_iterations_data # <<>>
    /\ Len(log_processors) < MaxRuns
    /\ log_processors' =
          Append(log_processors,
                 [log_content |-> all_iterations_data, mode |-> mode,
                  state |-> "running", cleared |-> FALSE])
    /\ UNCHANGED <<analyzer, mode, pc, nlines, start_time, start_line,
                   current_marker, heights_by_marker, end_times_by_marker,
                   result, first_start, height_extracted, end_extracted,
                   scenario, lines, log_content, iteration_pairs, pair_idx,
                   results, extract_vars, run_vars, all_iterations_data,
                   current_iteration, self_results, added>>

\* The i-th thread emits result_ready and the window's
\* on_processing_complete handles it.
RunCompletes(i) ==
    /\ pc = "window"
    /\ log_processors[i].state = "running"
    /\ log_processors' = [log_processors EXCEPT ![i].state = "delivered"]
    /\ self_results' = RunResults(log_processors[i].log_content,
                                  log_processors[i].mode)
    /\ UNCHANGED <<analyzer, mode, pc, nlines, start_time, start_line,
                   current_marker, heights_by_marker, end_times_by_marker,
                   result, first_start, height_extracted, end_extracted,
                   scenario, lines, log_content, iteration_pairs, pair_idx,
                   results, extract_vars, run_vars, all_iterations_data,
                   current_iteration, added>>

\* The i-th thread emits error_occurred and on_processing_error handles it.
RunFails(i) ==
    /\ pc = "window"
    /\ log_processors[i].state = "running"
    /\ log_processors' = [log_processors EXCEPT ![i].state = "failed"]
    /\ UNCHANGED <<analyzer, mode, pc, nlines, start_time, start_line,
                   current_marker, heights_by_marker, end_times_by_marker,
                   result, first_start, height_extracted, end_extracted,
                   scenario, lines, log_content, iteration_pairs, pair_idx,
                   results, extract_vars, run_vars, all_iterations_data,
                   current_iteration, self_results, added>>

\* self.log_processor no longer refers to the i-th thread: the thread object
\* can be destroyed while the thread is finishing, which ends the program.
RunAborts(i) ==
    /\ pc = "window"
    /\ i < Len(log_processors)
    /\ log_processors[i].state = "running"
    /\ pc' = "aborted"
    /\ UNCHANGED <<analyzer, mode, nlines, start_time, start_line,
                   current_marker, heights_by_marker, end_times_by_marker,
                   result, first_start, height_extracted, end_extracted,
                   scenario, lines, log_content, iteration_pairs, pair_idx,
                   results, extract_vars, run_vars, gui_vars>>

NextAccum == (\E text \in LogInputs : AddIteration(text)) \/ ClearAll

SpecAccum == InitWindow /\ [][NextAccum]_vars

NextWindow ==
    \/ \E text \in OverlapInputs : AddIteration(text)
    \/ ClearAll
    \/ ProcessAllIterations
    \/ \E i \in 1..Len(log_processors) :
          RunCompletes(i) \/ RunFails(i) \/ RunAborts(i)

SpecWindow == InitWindow /\ [][NextWindow]_vars

-----------------------------------------------------------------------------
(* Both analyzers' process_iteration on the same segment *)

\* Longest segment given to both analyzers.
MaxAgreeLines == 4

\* '[x] Sending button 1 down 123456.789'
ButtonDownLine == TrigLine("down", <<1, 2, 3, 4, 5, 6>>, <<7, 8, 9>>)
\* '[x] def:pbpress:time=123456.789:Power button pressed'
PbpressLine == TrigLine("pb", <<1, 2, 3, 4, 5, 6>>, <<7, 8, 9>>)

AgreeLines ==
    { ButtonUpLine, ButtonDownLine, PbpressLine, Marker5Line, ReaglLine,
      End5Line, MarkedUpdateLine(M12, H800, <<"auto">>) }

InitAgree ==
    /\ analyzer = "both"
    /\ mode \in Modes
    /\ pc = "call"
    /\ lines \in SeqsUpTo(AgreeLines, MaxAgreeLines)
    /\ nlines = 0
    /\ start_time = None
    /\ start_line = <<>>
    /\ current_marker = <<>>
    /\ heights_by_marker = <<>>
    /\ end_times_by_marker = <<>>
    /\ result = <<>>
    /\ first_start = None
    /\ height_extracted = FALSE
    /\ end_extracted = FALSE
    /\ scenario = 0
    /\ log_content = <<>>
    /\ iteration_pairs = <<>>
    /\ pair_idx = 0
    /\ results = <<>>
    /\ NoExtract
    /\ NoRun
    /\ NoWindow

\* calculator.process_iteration(lines, "01", mode, get_parser(mode)) and
\* LogProcessor.process_iteration(lines, "01", mode) on the same lines.
RunBoth ==
    /\ pc = "call"
    /\ pc' = "compared"
    /\ results' = <<ProcessIteration("calculator", mode, IterationNum, lines),
                    ProcessIteration("LogProcessor", mode, IterationNum, lines)>>
    /\ UNCHANGED <<analyzer, mode, nlines, start_time, start_line,
                   current_marker, heights_by_marker, end_times_by_marker,
                   result, first_start, height_extracted, end_extracted,
                   scenario, lines, log_content, iteration_pairs, pair_idx,
                   extract_vars, run_vars, gui_vars>>

NextAgree == RunBoth

SpecAgree == InitAgree /\ [][NextAgree]_vars

-----------------------------------------------------------------------------
(* One extract_start_timestamp call on a line of text *)

\* Longest integer part A, fractional part B and integer timestamp D of the
\* lines explored.
MaxIntLen == 4
MaxFracLen == 4
MaxStampLen == 7

StampDigits == {0, 7}

\* The digit strings of 1..n digits.
DigitStrings(n) == UNION {[1..k -> StampDigits] : k \in 1..n}

\* A line of text is a sequence of pieces.  A piece is a run of digits or
\* one of the phrases the patterns look for:
\*   "up"      'button 1 up '             "down"    'Sending button 1 down '
\*   "defpb"   'def:pbpress:'             "pbpress" 'pbpress '
\*   "pbp"     'Power button pressed'     "time"    'time='
\*   "power"   'power '                   "button"  'button '
\*   "pressed" 'pressed '                 "dot"     '.'
\*   "colon"   ':'                        "text"    ' at '
Word(kind) == [kind |-> kind, digits |-> <<>>]
Num(d) == [kind |-> "num", digits |-> d]

\* The sub-strings a piece contains, letter case ignored (re.IGNORECASE).
HasButton(t) == t.kind \in {"up", "down", "button", "pbp"}
HasPower(t) == t.kind \in {"power", "pbp"}
HasPressed(t) == t.kind \in {"pressed", "pbp"}
HasPbpress(t) == t.kind \in {"defpb", "pbpress"}

\* ' at button 1 up A.B'
ButtonUpText(A, B) ==
    <<Word("text"), Word("up"), Num(A), Word("dot"), Num(B)>>
\* ' at Sending button 1 down A.B'
ButtonDownText(A, B) ==
    <<Word("text"), Word("down"), Num(A), Word("dot"), Num(B)>>
\* ' at def:pbpress:time=A.B:Power button pressed'
PbpressText(A, B) ==
    <<Word("text"), Word("defpb"), Word("time"), Num(A), Word("dot"), Num(B),
      Word("colon"), Word("pbp")>>
\* 'def:pbpress:time=D:Power button pressed'
PbpressIntText(D) ==
    <<Word("defpb"), Word("time"), Num(D), Word("colon"), Word("pbp")>>
\* 'def:pbpress:time=D:Power button pressed at time=42'
TwoStampsText(D) ==
    PbpressIntText(D) \o <<Word("text"), Word("time"), Num(<<4, 2>>)>>
\* 'Power button pressed at time=D'
PressedAtText(D) == <<Word("pbp"), Word("text"), Word("time"), Num(D)>>
\* 'pbpress  at time=D'
PbpressLooseText(D) == <<Word("pbpress"), Word("text"), Word("time"), Num(D)>>
\* 'button power time=D'
ButtonPowerText(D) == <<Word("button"), Word("power"), Word("time"), Num(D)>>
\* 'power button time=D'
PowerButtonText(D) == <<Word("power"), Word("button"), Word("time"), Num(D)>>
\* 'power pressed time=D'
PowerPressedText(D) == <<Word("power"), Word("pressed"), Word("time"), Num(D)>>
\* 'power  at D'
PowerText(D) == <<Word("power"), Word("text"), Num(D)>>
\* 'button 1 up D'
ButtonUpIntText(D) == <<Word("up"), Num(D)>>
\* ' at time=D'
TimeOnlyText(D) == <<Word("text"), Word("time"), Num(D)>>

TextLines ==
    UNION { {ButtonUpText(A, B), ButtonDownText(A, B), PbpressText(A, B)} :
            A \in DigitStrings(MaxIntLen), B \in DigitStrings(MaxFracLen) }
    \cup
    UNION { {PbpressIntText(D), TwoStampsText(D), PressedAtText(D),
             PbpressLooseText(D), ButtonPowerText(D), PowerButtonText(D),
             PowerPressedText(D), PowerText(D), ButtonUpIntText(D),
             TimeOnlyText(D)} : D \in DigitStrings(MaxStampLen) }

\* The kind of the i-th piece, "eol" past the end of the line.
Kind(toks, i) == IF i \in 1..Len(toks) THEN toks[i].kind ELSE "eol"

\* The pieces from the i-th on have the kinds given.
Follows(toks, i, kinds) ==
    \A k \in 1..Len(kinds) : Kind(toks, i + k - 1) = kinds[k]

Leftmost(S) == CHOOSE x \in S : \A y \in S : x <= y
Rightmost(S) == CHOOSE x \in S : \A y \in S : y <= x

\* re.search(before + r'(\d+\.\d+)' + after, line): <<A, B>> of the leftmost
\* match, <<>> when there is none.
StampSearch(toks, before, after) ==
    LET pattern == before \o <<"num", "dot", "num">> \o after
        at == {i \in 1..Len(toks) : Follows(toks, i, pattern)}
    IN  IF at = {} THEN <<>>
        ELSE LET i == Leftmost(at) + Len(before)
             IN  <<toks[i].digits, toks[i + 2].digits>>

\* The record of captures of a line of text.
TextToLine(toks) ==
    LET up == StampSearch(toks, <<"up">>, <<>>)
        down == StampSearch(toks, <<"down">>, <<>>)
        pb == StampSearch(toks, <<"defpb", "time">>, <<"colon", "pbp">>)
    IN  IF up # <<>> THEN TrigLine("up", up[1], up[2])
        ELSE IF down # <<>> THEN TrigLine("down", down[1], down[2])
        ELSE IF pb # <<>> THEN TrigLine("pb", pb[1], pb[2])
        ELSE OtherLine

\* Group 1 of  <keywords>.*time[=:](\d+)  where the keywords can end on the
\* pieces `ends`: the greedy .* reaches the last 'time=<digits>' after them.
TimeAfter(toks, ends) ==
    LET js == {j \in 1..Len(toks) :
                 /\ Follows(toks, j, <<"time", "num">>)
                 /\ \E i \in ends : i < j}
    IN  IF js = {} THEN <<>> ELSE toks[Rightmost(js) + 1].digits

\* The pieces on which s1.*s2 can end: a piece containing s2 at or after a
\* piece containing s1 ('Power button pressed' has them in this order).
\* firsts and seconds are the pieces containing s1 and s2; same tells that
\* 'Power button pressed' has s1 before s2.
EndsOfPair(toks, firsts, seconds, same) ==
    {j \in seconds :
        \E i \in firsts : i < j \/ (i = j /\ same /\ toks[j].kind = "pbp")}

\* Group 1 of the k-th pattern of SuspendEventParser on the line, <<>> when
\* the pattern does not match.
SuspendPattern(k, toks) ==
    LET all == 1..Len(toks)
        button == {i \in all : HasButton(toks[i])}
        power == {i \in all : HasPower(toks[i])}
        pressed == {i \in all : HasPressed(toks[i])}
    IN
    CASE k = 1 ->
           LET at == {i \in all : Follows(toks, i, <<"defpb", "time", "num",
                                                     "colon", "pbp">>)}
           IN  IF at = {} THEN <<>> ELSE toks[Leftmost(at) + 2].digits
      [] k = 2 -> TimeAfter(toks, {i \in all : toks[i].kind = "pbp"})
      [] k = 3 -> TimeAfter(toks, {i \in all : HasPbpress(toks[i])})
      [] k = 4 -> TimeAfter(toks, EndsOfPair(toks, button, power, FALSE))
      [] k = 5 -> TimeAfter(toks, EndsOfPair(toks, power, button, TRUE))
      [] k = 6 -> TimeAfter(toks, EndsOfPair(toks, power, pressed, TRUE))
      [] k = 7 ->
           LET js == {j \in all :
                        /\ toks[j].kind = "num"
                        /\ Len(toks[j].digits) >= 6
                        /\ \E i \in 1..(j - 1) :
                              HasPower(toks[i]) \/ HasPbpress(toks[i])}
           IN  IF js = {} THEN <<>>
               ELSE LastN(toks[Rightmost(js)].digits, 6)

NumPatterns == 7

RECURSIVE TryPatterns(_, _)
\* for pattern in patterns: ... return, from the k-th pattern on.
TryPatterns(toks, k) ==
    IF k > NumPatterns THEN None
    ELSE LET timestamp_str == SuspendPattern(k, toks)
         IN  IF timestamp_str # <<>> THEN TimestampValue(timestamp_str)
             ELSE TryPatterns(toks, k + 1)

\* SuspendEventParser.extract_start_timestamp(line)
SuspendExtractStartText(toks) == TryPatterns(toks, 1)

\* parser.extract_start_timestamp(line) on a line of text.
ExtractStartText(a, m, toks) ==
    IF a = "calculator" /\ m = "suspend" THEN SuspendExtractStartText(toks)
    ELSE ExtractStartTimestamp(a, m, TextToLine(toks))

InitExtract ==
    /\ analyzer \in Analyzers
    /\ mode \in Modes
    /\ pc = "line"
    /\ text_line \in TextLines
    /\ extracted = None
    /\ lines = <<>>
    /\ nlines = 0
    /\ start_time = None
    /\ start_line = <<>>
    /\ current_marker = <<>>
    /\ heights_by_marker = <<>>
    /\ end_times_by_marker = <<>>
    /\ result = <<>>
    /\ first_start = None
    /\ height_extracted = FALSE
    /\ end_extracted = FALSE
    /\ scenario = 0
    /\ log_content = <<>>
    /\ iteration_pairs = <<>>
    /\ pair_idx = 0
    /\ results = <<>>
    /\ NoRun
    /\ NoWindow

\* possible_start = parser.extract_start_timestamp(line)
ExtractStart ==
    /\ pc = "line"
    /\ pc' = "extracted"
    /\ extracted' = ExtractStartText(analyzer, mode, text_line)
    /\ UNCHANGED <<analyzer, mode, nlines, start_time, start_line,
                   current_marker, heights_by_marker, end_times_by_marker,
                   result, first_start, height_extracted, end_extracted,
                   scenario, lines, log_content, iteration_pairs, pair_idx,
                   results, text_line, run_vars, gui_vars>>

NextExtract == ExtractStart

SpecExtract == InitExtract /\ [][NextExtract]_vars

-----------------------------------------------------------------------------
(* Vocabulary of the properties *)

\* process_iteration has returned a record.
Emitted == pc = "done" /\ result # <<>>

Res == result[1]

\* The markers that hold a height observation, and their final observation.
HeightMarkers == {heights_by_marker[i].key : i \in 1..Len(heights_by_marker)}
HeightOf(m) == DictGet(heights_by_marker, m).height
WaveformOf(m) == DictGet(heights_by_marker, m).waveform
PosOf(m) == CHOOSE i \in 1..Len(heights_by_marker) : heights_by_marker[i].key = m

IsUnknown(w) == Lower(w) = "unknown"
KnownMarkers == {m \in HeightMarkers : ~IsUnknown(WaveformOf(m))}

\* The markers of validHeights.
ValidMarkers == IF KnownMarkers # {} THEN KnownMarkers ELSE HeightMarkers

\* The greatest final height over validHeights, and the markers attaining it.
TopHeight ==
    CHOOSE h \in {HeightOf(m) : m \in ValidMarkers} :
        \A m \in ValidMarkers : HeightOf(m) <= h
Ties == {m \in ValidMarkers : HeightOf(m) = TopHeight}

EndMarkers == {end_times_by_marker[i].key : i \in 1..Len(end_times_by_marker)}
EndTimeOf(m) == DictGet(end_times_by_marker, m).time
EndTimes == {EndTimeOf(m) : m \in EndMarkers}

\* The orders in which n markers can appear.
Perms(n) == {f \in [1..n -> 1..n] : \A i, j \in 1..n : f[i] = f[j] => i = j}
Permuted(s, f) == [i \in 1..Len(s) |-> s[f[i]]]

\* In a whole call on `lines`: the marker id carried by line i, <<>> if none.
MarkerIdOn(i) ==
    IF lines[i].epdc # <<>> THEN lines[i].epdc ELSE lines[i].mxc

RECURSIVE MarkerAt(_)
\* The marker most recently identified at or before line i, <<>> if none.
MarkerAt(i) ==
    IF i = 0 THEN <<>>
    ELSE IF ~lines[i].blank /\ MarkerIdOn(i) # <<>> THEN MarkerIdOn(i)
    ELSE MarkerAt(i - 1)

\* Line i is a 'Sending update' line that carries a height.
Qualifies(i) ==
    ~lines[i].blank /\ lines[i].sending /\ lines[i].height # <<>>

\* The qualifying lines attributed to the marker m, and the last of them.
WritesOf(m) == {i \in 1..Len(lines) : Qualifies(i) /\ MarkerAt(i) = m}

RECURSIVE LastWriteUpTo(_, _)
LastWriteUpTo(m, i) ==
    IF i = 0 \/ (Qualifies(i) /\ MarkerAt(i) = m) THEN i
    ELSE LastWriteUpTo(m, i - 1)
LastWrite(m) == LastWriteUpTo(m, Len(lines))

RECURSIVE FirstWriteFrom(_, _)
FirstWriteFrom(m, i) ==
    IF i > Len(lines) \/ (Qualifies(i) /\ MarkerAt(i) = m) THEN i
    ELSE FirstWriteFrom(m, i + 1)
FirstWrite(m) == FirstWriteFrom(m, 1)

\* The markers some qualifying line is attributed to.
WrittenMarkers ==
    {MarkerAt(i) : i \in {j \in 1..Len(lines) : Qualifies(j)}} \ {<<>>}

\* The whole call has returned.
IterDone == pc = "done"

-----------------------------------------------------------------------------
(* Properties *)

\* C1: process_iteration returns None whenever, after the scan, no start time
\* was found, or no height observation or no end-time observation was recorded.
C1_NoneWhenDataMissing ==
    (pc = "done" /\ (start_time = None \/ heights_by_marker = <<>>
                     \/ end_times_by_marker = <<>>))
        => result = <<>>

\* A start time and a height were found, no end time: no result.
C1_Witness ==
    /\ pc = "done"
    /\ start_time # None
    /\ heights_by_marker # <<>>
    /\ end_times_by_marker = <<>>
    /\ result = <<>>

\* C2: whenever the start-timestamp extractor returned a value on some line,
\* a height was extracted on a 'Sending update' line under an established
\* marker and an end timestamp was extracted on an 'update end marker=' line,
\* process_iteration returns a result.
C2_ResultWheneverAllExtracted ==
    (pc = "done" /\ first_start # None /\ height_extracted /\ end_extracted)
        => result # <<>>

\* C3: when some marker has a waveform other than "unknown" (compared
\* case-insensitively) the chosen marker's waveform is not "unknown", whatever
\* the heights; when every waveform is "unknown" the chosen marker has the
\* greatest height of all markers.
C3_UnknownWaveformExcluded ==
    Emitted =>
        /\ KnownMarkers # {} => ~IsUnknown(WaveformOf(Res.marker))
        /\ KnownMarkers = {} =>
              \A m \in HeightMarkers : HeightOf(m) <= HeightOf(Res.marker)

\* A marker whose waveform is "UNKNOWN" is higher than the chosen one.
C3_Witness ==
    /\ Emitted
    /\ \E m \in HeightMarkers :
          WaveformOf(m) = "UNKNOWN" /\ HeightOf(m) > Res.max_height

\* C4: max_height is the maximum of the final heights over validHeights, and
\* the chosen marker is a marker of validHeights with that height.
C4_MaxHeightChosen ==
    Emitted =>
        /\ Res.max_height = TopHeight
        /\ Res.marker \in ValidMarkers
        /\ HeightOf(Res.marker) = TopHeight
        /\ \A m \in ValidMarkers : HeightOf(m) <= HeightOf(Res.marker)

\* Two markers of validHeights with different heights, the lower one first.
C4_Witness ==
    /\ Emitted
    /\ \E m \in ValidMarkers :
          HeightOf(m) < Res.max_height /\ PosOf(m) < PosOf(Res.marker)

\* C5 (as stated): among the markers tied at the maximum the chosen one has
\* the largest integer value, and the choice does not depend on the order in
\* which the markers appeared in the log.
C5_TieBreakOrderIndependent ==
    Emitted =>
        /\ Res.marker \in Ties
        /\ \A m \in Ties : StrToInt(m) <= StrToInt(Res.marker)
        /\ LET valid == ValidHeights(heights_by_marker)
           IN  \A f \in Perms(Len(valid)) :
                   ChosenMarker(Permuted(valid, f)) = Res.marker

\* C5 (amended): the chosen marker is a tied marker of the largest integer
\* value (numeric, not lexicographic); the choice does not depend on the
\* order of appearance when a single tied id has that value; when several
\* tied ids have that same value ("5" and "05") the chosen one is the one
\* that entered the heights map last.
C5_TieBreakNumericMax ==
    Emitted =>
        /\ Res.marker \in Ties
        /\ \A m \in Ties : StrToInt(m) <= StrToInt(Res.marker)
        /\ \A m \in Ties :
              (m # Res.marker /\ StrToInt(m) = StrToInt(Res.marker))
                  => PosOf(m) < PosOf(Res.marker)
        /\ (\A m \in Ties : m # Res.marker => StrToInt(m) < StrToInt(Res.marker))
              => LET valid == ValidHeights(heights_by_marker)
                 IN  \A f \in Perms(Len(valid)) :
                         ChosenMarker(Permuted(valid, f)) = Res.marker

\* "3" and "12" are tied at the maximum, "3" observed after "12": "12" is chosen.
C5_Witness ==
    /\ Emitted
    /\ {M3, M12} \subseteq Ties
    /\ PosOf(M12) < PosOf(M3)
    /\ Res.marker = M12

\* C6: when the chosen marker has an entry in endTimes, the stop time is that
\* marker's own end time.
C6_OwnEndTime ==
    (Emitted /\ Res.marker \in EndMarkers) => Res.stop = EndTimeOf(Res.marker)

\* The chosen marker has its end time; one marker has a larger and one a
\* smaller end time.
C6_Witness ==
    /\ Emitted
    /\ Res.marker \in EndMarkers
    /\ \E m \in EndMarkers : EndTimeOf(m) > Res.stop
    /\ \E m \in EndMarkers : EndTimeOf(m) < Res.stop

\* C7: when the chosen marker has no entry in endTimes, the stop time is the
\* maximum time over all entries of endTimes and the duration is computed
\* from it.
C7_FallbackMaxEndTime ==
    (Emitted /\ Res.marker \notin EndMarkers) =>
        /\ Res.stop \in EndTimes
        /\ \A t \in EndTimes : t <= Res.stop
        /\ Res.duration.num = Abs(Res.stop - Res.start)

\* The chosen marker has no end time, two other markers have, the first
\* recorded being the smaller.
C7_Witness ==
    /\ Emitted
    /\ Res.marker \notin EndMarkers
    /\ Len(end_times_by_marker) >= 2
    /\ end_times_by_marker[1].val.time < Res.stop

ScenarioDone ==
    /\ pc = "done"
    /\ analyzer = "calculator"
    /\ mode = "default"
    /\ scenario = Len(ScenarioLines)

\* C9 (as stated): the scenario yields one result with startTime = 456789,
\* chosenMarker = "5", stopTime = 222, duration = 456567, chosenHeight = 800
\* and chosenWaveform = "REAGL".
C9_ScenarioAsStated ==
    ScenarioDone =>
        /\ result # <<>>
        /\ Res.start = 456789
        /\ Res.marker = M5
        /\ Res.stop = 222
        /\ Res.duration = [num |-> 456567, den |-> 1]
        /\ Res.max_height = 800
        /\ Res.max_height_waveform = "REAGL"

\* C9 (amended): the scenario yields one result with startTime = 456789,
\* chosenMarker = "5", stopTime = 111222 (the last 6 digits of "111222" are
\* all of it), duration = |111222 - 456789| = 345567, chosenHeight = 800 and
\* chosenWaveform = "REAGL".
C9_Scenario ==
    ScenarioDone =>
        /\ result # <<>>
        /\ Res.start = 456789
        /\ Res.marker = M5
        /\ Res.stop = 111222
        /\ Res.duration = [num |-> 345567, den |-> 1]
        /\ Res.max_height = 800
        /\ Res.max_height_waveform = "REAGL"

C9_Witness == ScenarioDone /\ result # <<>>

\* C10: the start time of a segment is the value the start-timestamp
\* extractor returned on the first line for which it returned a value,
\* whatever that value.
C10_StartIsFirstExtracted ==
    (pc = "done" /\ first_start # None) => start_time = first_start

\* C11: after a call, the observation stored for a marker is the height and
\* the line of the last qualifying 'Sending update' line attributed to that
\* marker, and the maximum height of a result is one of these last heights:
\* a height that was overwritten takes no part in the selection.
C11_LastWriteWins ==
    IterDone =>
        /\ \A m \in HeightMarkers :
              /\ WritesOf(m) # {}
              /\ HeightOf(m) = StrToInt(lines[LastWrite(m)].height)
              /\ DictGet(heights_by_marker, m).line = lines[LastWrite(m)]
        /\ result # <<>> =>
              \E m \in HeightMarkers :
                  Res.max_height = StrToInt(lines[LastWrite(m)].height)

\* A result whose maximum height is below a height that was overwritten.
C11_Witness ==
    /\ IterDone
    /\ result # <<>>
    /\ \E m \in HeightMarkers : \E i \in WritesOf(m) :
          i < LastWrite(m) /\ StrToInt(lines[i].height) > Res.max_height

\* C12: every line that carries 'update end marker=<id>' and
\* 'end time=<digits>' leaves, as the end time of <id>, the integer value of
\* the last six digits of its own timestamp, whatever that value is.
C12_EveryEndLineOverwrites ==
    [][\A l \in EndLines :
         ScanLine(l) =>
           /\ DictHas(end_times_by_marker', l.endmarker)
           /\ DictGet(end_times_by_marker', l.endmarker).time
                = StrToInt(LastN(l.endtime, 6))]_vars

\* The line yields the waveform name "auto", an empty name, or no waveform.
YieldsNoName(l) == l.wfcap = <<>> \/ l.wfcap[1] \in {"auto", " ", ""}

\* The entries of all_heights, and the marker of the i-th.
Entries == Res.all_heights
EntryMarker(i) == Entries[i].marker

\* C18 (as stated): all_heights holds one entry per marker that received a
\* height observation, with the marker's last-written height, and the
\* entries are in last-write order.
C18_LastWriteOrder ==
    (IterDone /\ result # <<>>) =>
        /\ {EntryMarker(i) : i \in 1..Len(Entries)} = WrittenMarkers
        /\ Len(Entries) = Cardinality(WrittenMarkers)
        /\ \A i \in 1..Len(Entries) :
              Entries[i].height = StrToInt(lines[LastWrite(EntryMarker(i))].height)
        /\ \A i, j \in 1..Len(Entries) :
              i < j => LastWrite(EntryMarker(i)) < LastWrite(EntryMarker(j))

\* C18 (amended): all_heights holds exactly one entry per distinct marker
\* that received a height observation, each with the marker's last-written
\* height and waveform, and the entries are in the order in which the
\* markers received their first observation.
C18_FirstWriteOrder ==
    (IterDone /\ result # <<>>) =>
        /\ {EntryMarker(i) : i \in 1..Len(Entries)} = WrittenMarkers
        /\ Len(Entries) = Cardinality(WrittenMarkers)
        /\ \A i \in 1..Len(Entries) :
              LET l == lines[LastWrite(EntryMarker(i))] IN
              /\ Entries[i].height = StrToInt(l.height)
              /\ Entries[i].waveform =
                    IF YieldsNoName(l) THEN "unknown" ELSE l.wfcap[1]
        /\ \A i, j \in 1..Len(Entries) :
              i < j => FirstWrite(EntryMarker(i)) < FirstWrite(EntryMarker(j))

\* A result in which a marker observed first, and again after another
\* marker's last observation, is listed before that marker.
C18_Witness ==
    /\ IterDone
    /\ result # <<>>
    /\ \E i, j \in 1..Len(Entries) :
          i < j /\ LastWrite(EntryMarker(i)) > LastWrite(EntryMarker(j))

\* C19: a qualifying 'Sending update' line stores under the marker most
\* recently identified at or before it, the current marker persisting over
\* the lines without marker id; a 'Sending update' line before any marker
\* id stores nothing.  So the markers that hold an observation after a call
\* are exactly the markers so attributed, and the current marker is the
\* last one identified.
C19_MarkerAttribution ==
    IterDone =>
        /\ \A i \in 1..Len(lines) :
              (Qualifies(i) /\ MarkerAt(i) # <<>>) =>
                  /\ MarkerAt(i) \in HeightMarkers
                  /\ i = LastWrite(MarkerAt(i)) =>
                        DictGet(heights_by_marker, MarkerAt(i)).line = lines[i]
        /\ HeightMarkers \subseteq WrittenMarkers
        /\ (\A i \in 1..Len(lines) : Qualifies(i) => MarkerAt(i) = <<>>)
              => heights_by_marker = <<>>
        /\ lines # <<>> => current_marker = MarkerAt(Len(lines))

\* A result of a call in which one 'Sending update' line came before any
\* marker id and a later one, without marker id of its own, was stored
\* under the marker identified on an earlier line.
C19_Witness ==
    /\ IterDone
    /\ result # <<>>
    /\ \E i, j \in 1..Len(lines) :
          /\ i < j
          /\ Qualifies(i) /\ MarkerAt(i) = <<>>
          /\ Qualifies(j) /\ MarkerIdOn(j) = <<>> /\ MarkerAt(j) # <<>>
          /\ DictGet(heights_by_marker, MarkerAt(j)).line = lines[j]

\* C20: an observation whose line yields the waveform name "auto", an empty
\* name or no waveform is stored with the waveform "unknown", and its marker
\* is not the chosen one when some marker has a known waveform.
C20_NoNameIsUnknown ==
    IterDone =>
        \A m \in HeightMarkers :
            YieldsNoName(lines[LastWrite(m)]) =>
                /\ WaveformOf(m) = "unknown"
                /\ (result # <<>> /\ KnownMarkers # {}) => Res.marker # m

\* A result that passes over a greater height stored from such a line.
C20_Witness ==
    /\ IterDone
    /\ result # <<>>
    /\ KnownMarkers # {}
    /\ \E m \in HeightMarkers :
          /\ YieldsNoName(lines[LastWrite(m)])
          /\ HeightOf(m) > Res.max_height

\* In process_log_content: the text has been segmented.
Segmented == pc \in {"loop", "returned"}

\* The positions of the text where an occurrence of ITERATION_<digits>
\* starts, the n-th of them, and the position of an occurrence's last digit.
TokenStarts ==
    {i \in 1..(Len(log_content) - 1) :
        log_content[i] = "I" /\ log_content[i + 1] \in DigitChars}
RECURSIVE NextToken(_)
\* The first occurrence that starts at i or later, Len + 1 if none.
NextToken(i) ==
    IF i >= Len(log_content) THEN Len(log_content) + 1
    ELSE IF log_content[i] = "I" /\ log_content[i + 1] \in DigitChars THEN i
    ELSE NextToken(i + 1)
RECURSIVE NthToken(_)
NthToken(n) == IF n = 1 THEN NextToken(1) ELSE NextToken(NthToken(n - 1) + 1)
RECURSIVE LastDigitFrom(_)
LastDigitFrom(j) ==
    IF j < Len(log_content) /\ log_content[j + 1] \in DigitChars
    THEN LastDigitFrom(j + 1) ELSE j
TokenEnd(i) == LastDigitFrom(i + 1)

\* The digits of the n-th occurrence, and the text between it and the next
\* occurrence or the end of the text.
LabelOf(n) ==
    LET i == NthToken(n)
    IN  [j \in 1..(TokenEnd(i) - i) |-> DigitVal(log_content[i + j])]
BodyOf(n) ==
    SubSeq(log_content, TokenEnd(NthToken(n)) + 1,
           NextToken(NthToken(n) + 1) - 1)

\* C13: a text with no occurrence of ITERATION_<digits>, the empty text
\* included, gives exactly one segment, labelled "01", whose body is the
\* whole text.
C13_NoTokenOneSegment ==
    (Segmented /\ TokenStarts = {}) =>
        iteration_pairs = << [num |-> <<0, 1>>, content |-> log_content] >>

\* A non-empty text without occurrence, holding the word 'ITERATION_', was
\* processed as one segment and gave its result.
C13_Witness ==
    /\ pc = "returned"
    /\ TokenStarts = {}
    /\ \E i \in 1..Len(log_content) : log_content[i] = "I"
    /\ Len(results) = 1

\* C14: a text with k >= 1 occurrences of ITERATION_<digits> gives exactly k
\* pairs in the order of the occurrences, the n-th label being the digits of
\* the n-th occurrence and the n-th body the text between the n-th
\* occurrence and the next one (or the end of the text); the text before
\* the first occurrence is in no body.
C14_OnePairPerToken ==
    (Segmented /\ TokenStarts # {}) =>
        /\ Len(iteration_pairs) = Cardinality(TokenStarts)
        /\ \A n \in 1..Len(iteration_pairs) :
              /\ iteration_pairs[n].num = LabelOf(n)
              /\ iteration_pairs[n].content = BodyOf(n)

\* Two occurrences after some leading text, one of them with two digits.
C14_Witness ==
    /\ Segmented
    /\ Cardinality(TokenStarts) = 2
    /\ NthToken(1) > 1
    /\ \E n \in 1..2 : Len(iteration_pairs[n].num) = 2
    /\ \E n \in 1..2 : iteration_pairs[n].content # <<>>

\* The segments that pass the gate: those holding the line with a start, a
\* height observation and an end time.
Passing ==
    {n \in 1..Len(iteration_pairs) :
        \E i \in 1..Len(iteration_pairs[n].content) :
            iteration_pairs[n].content[i] = "R"}
NthPassing(j) ==
    CHOOSE n \in Passing : Cardinality({k \in Passing : k <= n}) = j

\* C15: the returned list holds exactly one result for each segment that
\* passes the gate and none for the others, in the order of the segments.
C15_ResultsInSegmentOrder ==
    pc = "returned" =>
        /\ Len(results) = Cardinality(Passing)
        /\ \A j \in 1..Len(results) :
              /\ results[j].iteration = iteration_pairs[NthPassing(j)].num
              /\ results[j].marker = M12
              /\ results[j].max_height = 600

\* Three segments, the middle one without result, and the two results with
\* different labels.
C15_Witness ==
    /\ pc = "returned"
    /\ Len(iteration_pairs) = 3
    /\ Passing = {1, 3}
    /\ Len(results) = 2
    /\ results[1].iteration # results[2].iteration

\* C17: after each pass of the loop, the returned value and the locals of
\* the call are those of a call on that segment alone, from fresh locals:
\* nothing of the segments before it takes part.
C17_NoCarryOver ==
    (Segmented /\ pair_idx >= 1) =>
        LET p == iteration_pairs[pair_idx] IN
        \A alone \in {ScanAll(analyzer, mode, InitScan, LinesOf(p.content))} :
            /\ result = ProcessIteration(analyzer, mode, p.num, LinesOf(p.content))
            /\ start_time = alone.start_time
            /\ current_marker = alone.current_marker
            /\ heights_by_marker = alone.heights_by_marker
            /\ end_times_by_marker = alone.end_times_by_marker

\* The first segment gave a result (a start time, a marker, a height and
\* an end time were found), the second holds an end line only and gave none.
C17_Witness ==
    /\ Segmented
    /\ pair_idx = 2
    /\ Len(results) = 1
    /\ 1 \in Passing
    /\ iteration_pairs[2].content = <<"E">>
    /\ result = <<>>
    /\ start_time = None
    /\ heights_by_marker = <<>>
    /\ end_times_by_marker # <<>>

\* Line i is a 'Sending update' line from which no height can be extracted.
NoHeight(i) == ~lines[i].blank /\ lines[i].sending /\ lines[i].height = <<>>

\* The lines of the call without those.
WithHeightOnly ==
    LET keep(l) == ~(~l.blank /\ l.sending /\ l.height = <<>>)
    IN  SelectSeq(lines, keep)

\* C21: a 'Sending update' line from which no height can be extracted, even
\* one with a waveform name, changes neither the heights map nor the
\* end-times map nor the start time: a call leaves them, and returns, as it
\* does on the same lines without those lines.
C21_NoHeightLineIsSkipped ==
    (IterDone /\ \E i \in 1..Len(lines) : NoHeight(i)) =>
        \A alone \in {ScanAll(analyzer, mode, InitScan, WithHeightOnly)} :
            /\ heights_by_marker = alone.heights_by_marker
            /\ end_times_by_marker = alone.end_times_by_marker
            /\ start_time = alone.start_time
            /\ result = ProcessResult(analyzer, mode, IterationNum,
                                      alone.start_time, alone.start_line,
                                      alone.heights_by_marker,
                                      alone.end_times_by_marker)

\* A result of a call in which such a line, carrying a waveform name, came
\* after the stored observation of the current marker.
C21_Witness ==
    /\ IterDone
    /\ result # <<>>
    /\ \E i \in 1..Len(lines) :
          /\ NoHeight(i)
          /\ lines[i].wfcap # <<>>
          /\ MarkerAt(i) \in HeightMarkers
          /\ LastWrite(MarkerAt(i)) < i
          /\ DictGet(heights_by_marker, MarkerAt(i)).waveform = "REAGL"

RECURSIVE Pow10(_)
Pow10(n) == IF n = 0 THEN 1 ELSE 10 * Pow10(n - 1)

\* The integer whose decimal digits are the last 3 digits of A followed by
\* the first 3 digits of B.
LastThreeFirstThree(A, B) ==
    LET k == Min(3, Len(B))
    IN  (StrToInt(A) % 1000) * Pow10(k) + StrToInt(B) \div Pow10(Len(B) - k)

\* extract_start_timestamp has returned.
Extracted == pc = "extracted"

\* The places of the line where the phrase is followed by A.B
StampedAt(phrase) ==
    {i \in 1..Len(text_line) :
        /\ text_line[i].kind = phrase
        /\ Follows(text_line, i + 1, <<"num", "dot", "num">>)}

\* C22: in default and swipe mode a line carrying the mode's trigger phrase
\* followed by A.B yields the integer made of the last 3 digits of A and the
\* first 3 digits of B, a value in 0..999999; every other line yields none.
C22_ThreePlusThree ==
    (Extracted /\ mode \in {"default", "swipe"}) =>
        LET at == StampedAt(IF mode = "default" THEN "up" ELSE "down")
        IN  IF at = {} THEN extracted = None
            ELSE \E i \in at :
                   /\ extracted = LastThreeFirstThree(text_line[i + 1].digits,
                                                      text_line[i + 3].digits)
                   /\ extracted \in 0..999999

\* 'Sending button 1 down 7007.0707' yields 007 070.
C22_Witness ==
    /\ Extracted
    /\ mode = "swipe"
    /\ text_line = ButtonDownText(<<7, 0, 0, 7>>, <<0, 7, 0, 7>>)
    /\ extracted = 7070

\* C23: in suspend mode the line 'def:pbpress:time=A.B:Power button pressed'
\* yields the last 3 digits of A followed by the first 3 digits of B, with
\* the suspend extractor of either analyzer.
C23_SuspendPrimaryThreePlusThree ==
    (/\ Extracted
     /\ mode = "suspend"
     /\ Follows(text_line, 2, <<"defpb", "time", "num", "dot", "num",
                                "colon", "pbp">>)) =>
        extracted = LastThreeFirstThree(text_line[4].digits,
                                        text_line[6].digits)

\* The patterns of SuspendEventParser that match the line.
Matching == {k \in 1..NumPatterns : SuspendPattern(k, text_line) # <<>>}

\* C24: SuspendEventParser returns the number captured by the first of its
\* patterns that matches, modulo 10^6, and none when no pattern matches.
C24_FirstPatternModMillion ==
    (Extracted /\ analyzer = "calculator" /\ mode = "suspend") =>
        IF Matching = {} THEN extracted = None
        ELSE LET captured == SuspendPattern(Leftmost(Matching), text_line)
             IN  extracted = StrToInt(captured) % 1000000

\* 'def:pbpress:time=7000007:Power button pressed at time=42': the first
\* pattern captures 7000007 and later patterns capture 42.
C24_Witness ==
    /\ Extracted
    /\ analyzer = "calculator"
    /\ mode = "suspend"
    /\ text_line = TwoStampsText(<<7, 0, 0, 0, 0, 0, 7>>)
    /\ Cardinality(Matching) > 1
    /\ \E k \in Matching : SuspendPattern(k, text_line) = <<4, 2>>
    /\ extracted = 7

\* C25: every end time held in end_times_by_marker is the number captured
\* after 'end time=' on the stored line, modulo 10^6, and lies in 0..999999.
C25_EndTimeModMillion ==
    \A i \in 1..Len(end_times_by_marker) :
        LET entry == end_times_by_marker[i].val
        IN  /\ entry.line.endtime # <<>>
            /\ entry.time = StrToInt(entry.line.endtime) % 1000000
            /\ entry.time \in 0..999999

\* An end time taken from a captured string of more than 6 digits, and one
\* taken from a string of fewer than 6.
C25_Witness ==
    /\ \E i \in 1..Len(end_times_by_marker) :
          /\ Len(end_times_by_marker[i].val.line.endtime) > 6
          /\ end_times_by_marker[i].val.time = 999000
    /\ \E i \in 1..Len(end_times_by_marker) :
          /\ Len(end_times_by_marker[i].val.line.endtime) < 6
          /\ end_times_by_marker[i].val.time = 5000

\* C27: in every emitted result the marker is a key of the heights map,
\* max_height and max_height_waveform are the height and waveform stored for
\* it, the same triple is an entry of all_heights, and stop is the time of an
\* entry of the end-times map.
C27_ResultConsistent ==
    Emitted =>
        /\ Res.marker \in HeightMarkers
        /\ Res.max_height = HeightOf(Res.marker)
        /\ Res.max_height_waveform = WaveformOf(Res.marker)
        /\ \E i \in 1..Len(Res.all_heights) :
              Res.all_heights[i] = [marker |-> Res.marker,
                                    height |-> HeightOf(Res.marker),
                                    waveform |-> WaveformOf(Res.marker)]
        /\ Res.stop \in EndTimes

\* A result whose marker is the second of the heights map and has no end
\* time of its own.
C27_Witness ==
    /\ Emitted
    /\ Len(heights_by_marker) >= 2
    /\ PosOf(Res.marker) = 2
    /\ Res.marker \notin EndMarkers
    /\ Res.stop \in EndTimes

\* Both analyzers have returned.
Compared == pc = "compared"

\* C26: in default and swipe mode the two analyzers return none on the same
\* segments, and otherwise results with the same start, stop, marker,
\* max_height, max_height_waveform and all_heights.
C26_AnalyzersAgree ==
    (Compared /\ mode \in {"default", "swipe"}) =>
        /\ (results[1] = <<>>) <=> (results[2] = <<>>)
        /\ results[1] # <<>> =>
             LET c == results[1][1]
                 p == results[2][1]
             IN  /\ c.start = p.start
                 /\ c.stop = p.stop
                 /\ c.marker = p.marker
                 /\ c.max_height = p.max_height
                 /\ c.max_height_waveform = p.max_height_waveform
                 /\ c.all_heights = p.all_heights

\* Both analyzers return a result in swipe mode; the results differ in
\* their duration field.
C26_Witness ==
    /\ Compared
    /\ mode = "swipe"
    /\ results[1] # <<>>
    /\ results[2] # <<>>
    /\ results[1][1].duration # results[2][1].duration
    /\ results[1][1].stop = results[2][1].stop

\* The positions of the signals of a kind among the signals emitted, and the
\* number of segments of the text.
SignalsOf(kind) == {i \in 1..Len(signals) : signals[i].sig = kind}
NumSegments == IF TokenStarts = {} THEN 1 ELSE Cardinality(TokenStarts)

\* The progress values emitted, in order.
ProgressValues ==
    LET IsProgress(x) == x.sig = "progress_updated"
        ps == SelectSeq(signals, IsProgress)
    IN  [k \in 1..Len(ps) |-> ps[k].val]

\* C28: the progress values of a run are 10, 30, 50, then one value in
\* 50..90 per segment, then 100, never decreasing; result_ready is emitted
\* at most once and right after progress 100; a run never emits both
\* result_ready and error_occurred and has emitted exactly one of them when
\* it ends; the total_iterations reported is the number of segments, which
\* is at least the number of results.
C28_SignalProtocol ==
    LET ready == SignalsOf("result_ready")
        failed == SignalsOf("error_occurred")
    IN  /\ \A p \in {ProgressValues} :
              /\ Len(p) <= NumSegments + 4
              /\ \A k \in 1..Len(p) :
                    /\ p[k] \in 10..100
                    /\ k > 1 => p[k - 1] <= p[k]
                    /\ k = 1 => p[k] = 10
                    /\ k = 2 => p[k] = 30
                    /\ k = 3 => p[k] = 50
                    /\ (k > 3 /\ k <= NumSegments + 3) => p[k] \in 50..90
                    /\ k = NumSegments + 4 => p[k] = 100
        /\ Cardinality(ready) <= 1
        /\ \A i \in ready :
              /\ i > 1
              /\ signals[i - 1] = [sig |-> "progress_updated", val |-> 100]
              /\ signals[i].val.total_iterations = NumSegments
              /\ Len(signals[i].val.results) <= NumSegments
        /\ ready = {} \/ failed = {}
        /\ pc = "ended" <=> Cardinality(ready \cup failed) = 1
        /\ pc = "ended" => signals[Len(signals)].sig \in {"result_ready",
                                                          "error_occurred"}

\* A run over two segments, one of them giving a result, that ended with
\* result_ready.
C28_Witness ==
    /\ pc = "ended"
    /\ ProgressValues = <<10, 30, 50, 70, 90, 100>>
    /\ signals[Len(signals)].sig = "result_ready"
    /\ signals[Len(signals)].val.total_iterations = 2
    /\ Len(signals[Len(signals)].val.results) = 1

\* No occurrence of ITERATION_<digits> in the text.
NoToken(text) ==
    \A i \in 1..(Len(text) - 1) : ~(text[i] = "I" /\ text[i + 1] \in DigitChars)

\* C29: after clear_all and k >= 1 add_iteration calls with non-empty texts
\* holding no ITERATION_<digits>, the accumulated text splits into k
\* segments labelled 01, 02, ... whose bodies are the texts added, in order,
\* up to surrounding whitespace; calls with an empty text change neither
\* the accumulated text nor the counter.
C29_AccumulateThenSplit ==
    /\ current_iteration = Len(added) + 1
    /\ added = <<>> => all_iterations_data = <<>>
    /\ (added # <<>> /\ \A i \in 1..Len(added) : NoToken(added[i])) =>
          \A pairs \in {IterationPairs(all_iterations_data)} :
              /\ Len(pairs) = Len(added)
              /\ \A i \in 1..Len(pairs) :
                    /\ pairs[i].num = <<i \div 10, i % 10>>
                    /\ StripText(pairs[i].content) = StripText(added[i])

\* Two texts added, the first between newlines and the second without a
\* final newline.
C29_Witness ==
    /\ added = << <<"NL", "E", "NL">>, <<"r">> >>
    /\ all_iterations_data =
          <<"NL", "I", "0", "1", "NL", "E", "NL", "I", "0", "2", "NL", "R">>
    /\ current_iteration = 3

\* The i-th thread's result_ready is handled in this step.
Delivers(i) ==
    /\ i \in 1..Len(log_processors)
    /\ log_processors[i].state = "running"
    /\ log_processors'[i].state = "delivered"

\* C30: the results of a run started earlier never replace those of a run
\* started later, a run that completes after clear_all does not repopulate
\* the results, and once all runs have completed the results displayed are
\* those of the most recently started run.
C30_LatestRunWins ==
    [][ /\ \A i \in 1..Len(log_processors) :
              (/\ Delivers(i)
               /\ \/ log_processors[i].cleared
                  \/ \E j \in (i + 1)..Len(log_processors) :
                        log_processors[j].state = "delivered")
                  => self_results' = self_results
        /\ \A n \in {Len(log_processors')} :
              (/\ n > 0
               /\ \A i \in 1..n : log_processors'[i].state # "running"
               /\ log_processors'[n].state = "delivered"
               /\ ~log_processors'[n].cleared)
                  => self_results' = RunResults(log_processors'[n].log_content,
                                                log_processors'[n].mode)
      ]_vars

====
